---- MODULE Spec2Model ----
(***************************************************************************)
(* State-machine model of the authentication subsystem of the backend:     *)
(* routes/auth.js (send-otp, register, verify, me, my-sessions, login),    *)
(* middleware/auth.js (Middleware, RoleMiddleware) and the role-gated      *)
(* category routes of routes/category.js, and the resource routes (list,   *)
(* create, update, delete) of the resources router.                        *)
(*                                                                         *)
(* Every request handler is an async function: it runs synchronously up to *)
(* an `await`, suspends, and resumes later.  Each action below is one such *)
(* synchronous stretch together with the store call it resumes from, so    *)
(* the handlers of different requests interleave exactly at the awaits.    *)
(* An await on a computation that touches no shared state (bcrypt.compare) *)
(* is folded into the stretch before it.                                   *)
(*                                                                         *)
(* The clock `now` counts ticks of five minutes.                           *)
(***************************************************************************)
EXTENDS Naturals, Integers, Sequences, FiniteSets, Bags, TLC

VARIABLES
    users,       \* table "User": sequence of rows, id = position (autoincrement)
    sessions,    \* table "Session": bag of rows (the serial id, which no handler reads, left out)
    categories,  \* table "Category": sequence of rows, id = position; a deleted row
                 \* leaves Deleted at its position, as the id is never handed out again
    products,    \* table "Product": sequence of rows, id = position (Deleted as above)
    now,         \* wall clock, ticks of five minutes
    pc,          \* per request slot: where its handler is suspended ("idle" = no request)
    req,         \* per request slot: the request's inputs and the handler's locals
    res          \* per request slot: the response sent for the slot's last request

vars == <<users, sessions, categories, products, now, pc, req, res>>

\* ---------------------------------------------------------------- bounds
MaxTime  == 4           \* the clock stops ticking here
MaxCategories == 2      \* category creations stop at this many ids handed out
MaxProducts   == 2      \* resource creations stop at this many ids handed out

Procs == {1, 2}         \* request slots: requests that can be in flight together

\* ---------------------------------------------------------------- inputs
Undefined == "undefined"                       \* a JS undefined / missing field
None      == [kind |-> "none"]                 \* null / undefined object value
Deleted   == [kind |-> "deleted"]              \* what a deleted row leaves at its id

Emails        == {"a@example.com", "b@example.com"}
BadEmail      == "not-an-email"
GoodName      == "Ann"
ShortName     == "Al"                           \* shorter than min(3)
GoodPassword  == "secret1"                      \* the password registrations choose
Passwords     == {GoodPassword, "secret2"}      \* the passwords logins try
ShortPassword == "pw"                           \* shorter than min(6)
IPs           == {"10.0.0.1", "10.0.0.2"}
UserAgents    == {"Firefox"}
DeviceAgents  == {"Firefox", "Chrome"}          \* the devices a user logs in from
CategoryNames == {"Books"}
ShortCategory == "B"                            \* shorter than min(2)

\* ---------------------------------------------------------------- constants of the code
AccessTtl  == 3         \* expiresIn: "15m", in ticks
RefreshTtl == 2016      \* expiresIn: "7d", in ticks
OtpStep    == 30        \* otplib totp default step, seconds
AccessSecret  == "soz"
RefreshSecret == "resoz"
OtpSuffix     == "soz"

\* joi: role: string().valid("user", "super_admin", "admin").optional()
RegisterRoles == {"user", "super_admin", "admin"}

\* ---------------------------------------------------------------- library functions
\* bcrypt.hashSync(password, 10): one-way digest of the plaintext
hashSync(password) == [alg |-> "bcrypt", of |-> password]
\* bcrypt.compare(password, hash)
compare(password, hash) == hash = hashSync(password)

\* otplib: counter = floor(epoch seconds / step); a tick is 300 seconds
TotpCounter(t) == (t * 300) \div OtpStep
\* totp.generate(secret) at time t: the code is a function of secret and counter
TotpGenerate(secret, t) == [secret |-> secret, counter |-> TotpCounter(t)]
\* totp.check(token, secret) at time t, default window 0
TotpCheck(token, secret, t) == token = TotpGenerate(secret, t)
\* a secret that leaves the address out
OtpSecret_Shared(email) == <<"", OtpSuffix>>

\* email + "soz"
OtpSecret(email) == <<email, OtpSuffix>>

\* jwt.sign(payload, secret, {expiresIn}) at time t
jwtSign(id, role, secret, ttl, t) ==
    [kind |-> "jwt", id |-> id, role |-> role, iat |-> t, exp |-> t + ttl, key |-> secret]
\* jwt.verify(token, secret) at time t: the name of the error it throws, or "none".
\* The token is decoded, then its signature is checked, then its expiry.
jwtVerify(token, secret, t) ==
    IF token.kind # "jwt" THEN "JsonWebTokenError"
    ELSE IF token.key # secret THEN "JsonWebTokenError"
    ELSE IF t >= token.exp THEN "TokenExpiredError"
    ELSE "none"
\* the decoded payload jwt.verify returns
jwtDecoded(token) ==
    [kind |-> "principal", id |-> token.id, role |-> token.role, iat |-> token.iat, exp |-> token.exp]

\* generateAccessToken with the refresh token's lifetime
generateAccessToken_LongLived(user, t) == jwtSign(user.id, user.role, AccessSecret, RefreshTtl, t)

generateAccessToken(user, t)  == jwtSign(user.id, user.role, AccessSecret, AccessTtl, t)

\* generateRefreshToken signing with the access token's secret
generateRefreshToken_AccessSecret(user, t) == jwtSign(user.id, Undefined, AccessSecret, RefreshTtl, t)

generateRefreshToken(user, t) == jwtSign(user.id, Undefined, RefreshSecret, RefreshTtl, t)

\* SendMail(email, otp) once transporter.sendMail has settled, without its try/catch:
\* a rejected send leaves SendMail as an exception
SendMail_Unguarded(sent) ==
    [threw |-> ~sent,
     log |-> IF sent THEN "Email sent" ELSE "none"]

\* SendMail(email, otp) once transporter.sendMail has settled: `sent` tells whether
\* the transport resolved or rejected.  The try/catch turns both into a console line
\* and a normal return.
SendMail(sent) ==
    [threw |-> FALSE,
     log |-> IF sent THEN "Email sent" ELSE "Error while sending email"]

\* deviceDetector.parse(userAgent), then JSON.stringify
deviceData(userAgent) == <<"device", userAgent>>

\* ---------------------------------------------------------------- store queries
\* client.user.findUnique({ where: { email } })
findUserByEmail(email) ==
    IF \E i \in 1..Len(users) : users[i].email = email
    THEN users[CHOOSE i \in 1..Len(users) : users[i].email = email]
    ELSE None
\* client.user.findUnique({ where: { id } })
findUserById(id) ==
    IF id \in 1..Len(users) THEN users[id] ELSE None
\* the rows of table "Session" with this ip and userId, as a bag
sessionsAt(ip, userId) ==
    LET match == {s \in BagToSet(sessions) : s.ip = ip /\ s.userId = userId}
    IN [s \in match |-> sessions[s]]
\* client.session.findFirst({ where: { ip, userId } })
findSession(ip, userId) ==
    IF BagToSet(sessionsAt(ip, userId)) # {}
    THEN CHOOSE s \in BagToSet(sessionsAt(ip, userId)) : TRUE
    ELSE None
\* client.session.findMany({ where: { userId } })
findSessionsOf(userId) ==
    LET match == {s \in BagToSet(sessions) : s.userId = userId}
    IN [s \in match |-> sessions[s]]
\* client.session.create({ data })
createSession(row) == sessions (+) SetToBag({row})
\* client.category.findUnique / findFirst({ where: { name } })
findCategoryByName(name) ==
    IF \E i \in 1..Len(categories) : categories[i].kind = "category" /\ categories[i].name = name
    THEN categories[CHOOSE i \in 1..Len(categories) :
                        categories[i].kind = "category" /\ categories[i].name = name]
    ELSE None

\* ---------------------------------------------------------------- responses
\* sends counts the calls of res.json / res.send for the request; uncaught tells
\* whether an exception left the handler function
Response(route, status, message) ==
    [route |-> route, status |-> status, message |-> message,
     AccessToken |-> None, RefreshToken |-> None, body |-> None,
     sends |-> 1, uncaught |-> FALSE]

\* the handler of slot p sends response r and ends
Respond(p, r) ==
    /\ pc'  = [pc  EXCEPT ![p] = "idle"]
    /\ req' = [req EXCEPT ![p] = None]
    /\ res' = [res EXCEPT ![p] = r]

\* the handler of slot p suspends at label l with locals r
Suspend(p, l, r) ==
    /\ pc'  = [pc  EXCEPT ![p] = l]
    /\ req' = [req EXCEPT ![p] = r]
    /\ res' = [res EXCEPT ![p] = None]

Init ==
    /\ users = <<>>
    /\ sessions = EmptyBag
    /\ categories = <<>>
    /\ products = <<>>
    /\ now = 0
    /\ pc  = [p \in Procs |-> "idle"]
    /\ req = [p \in Procs |-> None]
    /\ res = [p \in Procs |-> None]

\* ---------------------------------------------------------------- clock
Tick ==
    /\ now < MaxTime
    /\ now' = now + 1
    /\ UNCHANGED <<users, sessions, categories, products, pc, req, res>>

\* ---------------------------------------------------------------- POST /auth/register
\* joi schema.validate({ name, email, password, role }): the first failing key, or "ok"
registerValidate(name, email, password, role) ==
    IF name = ShortName THEN "name"
    ELSE IF email = BadEmail THEN "email"
    ELSE IF password = ShortPassword THEN "password"
    ELSE IF role # Undefined /\ role \notin RegisterRoles THEN "role"
    ELSE "ok"

\* request arrives; validation is synchronous; then await client.user.findUnique
Register(p, name, email, password, role) ==
    /\ pc[p] = "idle"
    /\ IF registerValidate(name, email, password, role) # "ok"
       THEN Respond(p, Response("register", 400, registerValidate(name, email, password, role)))
       ELSE Suspend(p, "reg_find", [route |-> "register", name |-> name, email |-> email,
                                    password |-> password, role |-> role])
    /\ UNCHANGED <<users, sessions, categories, products, now>>

\* findUnique resolves; duplicate check; totp.generate; await SendMail
RegisterFind(p) ==
    /\ pc[p] = "reg_find"
    /\ IF findUserByEmail(req[p].email) # None
       THEN Respond(p, Response("register", 400, "User already exists"))
       ELSE Suspend(p, "reg_mail",
                    req[p] @@ [otp |-> TotpGenerate(OtpSecret(req[p].email), now)])
    /\ UNCHANGED <<users, sessions, categories, products, now>>

\* transporter.sendMail settles and SendMail returns; mailLog keeps the console line
\* it wrote; bcrypt.hashSync; await client.user.create
RegisterMail(p) ==
    /\ pc[p] = "reg_mail"
    /\ \E sent \in BOOLEAN :
          LET mail == SendMail(sent)
          IN IF mail.threw
             THEN Respond(p, Response("register", 500, "Server error"))
             ELSE Suspend(p, "reg_create",
                          [req[p] EXCEPT !.password = hashSync(req[p].password)]
                            @@ [mailLog |-> mail.log])
    /\ UNCHANGED <<users, sessions, categories, products, now>>

\* client.user.create resolves: email is @unique, a duplicate makes create throw,
\* which the handler's catch answers with 500
RegisterCreate(p) ==
    /\ pc[p] = "reg_create"
    /\ IF findUserByEmail(req[p].email) # None
       THEN /\ Respond(p, Response("register", 500, "Server error"))
            /\ UNCHANGED users
       ELSE LET newUser == [id |-> Len(users) + 1,
                            name |-> req[p].name,
                            email |-> req[p].email,
                            password |-> req[p].password,
                            role |-> IF req[p].role = Undefined THEN "user" ELSE req[p].role,
                            status |-> "pending"]
            IN /\ users' = Append(users, newUser)
               /\ Respond(p, [Response("register", 201, "User created successfully")
                                EXCEPT !.body = [kind |-> "user", name |-> newUser.name,
                                                 email |-> newUser.email,
                                                 role |-> newUser.role]])
    /\ UNCHANGED <<sessions, categories, products, now>>

\* ---------------------------------------------------------------- POST /auth/send-otp
SendOtp(p, email) ==
    /\ pc[p] = "idle"
    /\ Suspend(p, "otp_find", [route |-> "send-otp", email |-> email])
    /\ UNCHANGED <<users, sessions, categories, products, now>>

\* findUnique resolves; totp.generate; await SendMail
SendOtpFind(p) ==
    /\ pc[p] = "otp_find"
    /\ IF findUserByEmail(req[p].email) = None
       THEN Respond(p, Response("send-otp", 404, "User with this email not found"))
       ELSE Suspend(p, "otp_mail",
                    req[p] @@ [otp |-> TotpGenerate(OtpSecret(req[p].email), now)])
    /\ UNCHANGED <<users, sessions, categories, products, now>>

\* transporter.sendMail settles and SendMail returns; res.json
SendOtpMail(p) ==
    /\ pc[p] = "otp_mail"
    /\ \E sent \in BOOLEAN :
          IF SendMail(sent).threw
          THEN Respond(p, Response("send-otp", 500, "error.message"))
          ELSE Respond(p, Response("send-otp", 200, "OTP sent"))
    /\ UNCHANGED <<users, sessions, categories, products, now>>

\* ---------------------------------------------------------------- POST /auth/verify
\* the codes a client can submit at time t: the current code of any address, the code
\* of the previous minute, and a made-up one
GarbageOtp == [secret |-> <<"?", "?">>, counter |-> 0]
OtpInputs(t) ==
    {TotpGenerate(OtpSecret(e), t) : e \in Emails}
        \cup {TotpGenerate(OtpSecret(e), t - 1) : e \in IF t > 0 THEN Emails ELSE {}}
        \cup {GarbageOtp}

\* Verify with the totp.check left out
Verify_Unchecked(p, email, otp) ==
    /\ pc[p] = "idle"
    /\ Suspend(p, "ver_find", [route |-> "verify", email |-> email, otp |-> otp])
    /\ UNCHANGED <<users, sessions, categories, products, now>>

\* request arrives; totp.check is synchronous; then await client.user.findUnique
Verify(p, email, otp) ==
    /\ pc[p] = "idle"
    /\ IF ~TotpCheck(otp, OtpSecret(email), now)
       THEN Respond(p, Response("verify", 400, "Invalid OTP"))
       ELSE Suspend(p, "ver_find", [route |-> "verify", email |-> email, otp |-> otp])
    /\ UNCHANGED <<users, sessions, categories, products, now>>

\* findUnique resolves; then await client.user.update
VerifyFind(p) ==
    /\ pc[p] = "ver_find"
    /\ IF findUserByEmail(req[p].email) = None
       THEN Respond(p, Response("verify", 404, "User with this email not found"))
       ELSE Suspend(p, "ver_update", req[p])
    /\ UNCHANGED <<users, sessions, categories, products, now>>

\* VerifyUpdate that refuses a user who is verified already
VerifyUpdate_OnlyPending(p) ==
    /\ pc[p] = "ver_update"
    /\ IF findUserByEmail(req[p].email) = None
       THEN /\ Respond(p, Response("verify", 500, "Internal server error"))
            /\ UNCHANGED users
       ELSE IF findUserByEmail(req[p].email).status = "active"
       THEN /\ Respond(p, Response("verify", 400, "Invalid OTP"))
            /\ UNCHANGED users
       ELSE /\ users' = [i \in 1..Len(users) |->
                           IF users[i].email = req[p].email
                           THEN [users[i] EXCEPT !.status = "active"]
                           ELSE users[i]]
            /\ Respond(p, Response("verify", 200, "User verified!"))
    /\ UNCHANGED <<sessions, categories, products, now>>

\* client.user.update({ where: { email }, data: { status: "active" } }) resolves
\* (update of a missing row throws: 500)
VerifyUpdate(p) ==
    /\ pc[p] = "ver_update"
    /\ IF findUserByEmail(req[p].email) = None
       THEN /\ Respond(p, Response("verify", 500, "Internal server error"))
            /\ UNCHANGED users
       ELSE /\ users' = [i \in 1..Len(users) |->
                           IF users[i].email = req[p].email
                           THEN [users[i] EXCEPT !.status = "active"]
                           ELSE users[i]]
            /\ Respond(p, Response("verify", 200, "User verified!"))
    /\ UNCHANGED <<sessions, categories, products, now>>

\* ---------------------------------------------------------------- POST /auth/login
Login(p, email, password, ip, userAgent) ==
    /\ pc[p] = "idle"
    /\ Suspend(p, "login_user", [route |-> "login", email |-> email, password |-> password,
                                 ip |-> ip, userAgent |-> userAgent, user |-> None])
    /\ UNCHANGED <<users, sessions, categories, products, now>>

\* LoginFindUser with the bcrypt.compare left out
LoginFindUser_NoPasswordCheck(p) ==
    /\ pc[p] = "login_user"
    /\ LET user == findUserByEmail(req[p].email)
       IN IF user = None
          THEN Respond(p, Response("login", 404, "User with this email not found"))
          ELSE IF user.status # "active"
          THEN Respond(p, Response("login", 400, "User is not verified"))
          ELSE Suspend(p, "login_session", [req[p] EXCEPT !.user = user])
    /\ UNCHANGED <<users, sessions, categories, products, now>>

\* LoginFindUser with the password compared before the status is looked at
LoginFindUser_PasswordFirst(p) ==
    /\ pc[p] = "login_user"
    /\ LET user == findUserByEmail(req[p].email)
       IN IF user = None
          THEN Respond(p, Response("login", 404, "User with this email not found"))
          ELSE IF ~compare(req[p].password, user.password)
          THEN Respond(p, Response("login", 400, "Incorrect password"))
          ELSE IF user.status # "active"
          THEN Respond(p, Response("login", 400, "User is not verified"))
          ELSE Suspend(p, "login_session", [req[p] EXCEPT !.user = user])
    /\ UNCHANGED <<users, sessions, categories, products, now>>

\* findUnique resolves; existence and status checks; bcrypt.compare;
\* then await client.session.findFirst
LoginFindUser(p) ==
    /\ pc[p] = "login_user"
    /\ LET user == findUserByEmail(req[p].email)
       IN IF user = None
          THEN Respond(p, Response("login", 404, "User with this email not found"))
          ELSE IF user.status # "active"
          THEN Respond(p, Response("login", 400, "User is not verified"))
          ELSE IF ~compare(req[p].password, user.password)
          THEN Respond(p, Response("login", 400, "Incorrect password"))
          ELSE Suspend(p, "login_session", [req[p] EXCEPT !.user = user])
    /\ UNCHANGED <<users, sessions, categories, products, now>>

\* generateAccessToken, generateRefreshToken, res.json
LoginGrant(p) ==
    Respond(p, [Response("login", 200, "You are logged in")
                  EXCEPT !.AccessToken = generateAccessToken(req[p].user, now),
                         !.RefreshToken = generateRefreshToken(req[p].user, now)])

\* LoginFindSession with the result of the lookup ignored: a row is always created
LoginFindSession_AlwaysCreate(p) ==
    /\ pc[p] = "login_session"
    /\ Suspend(p, "login_create", req[p])
    /\ UNCHANGED <<users, sessions, categories, products, now>>

\* LoginFindSession that rewrites the device of the session it finds
LoginFindSession_UpdateDevice(p) ==
    /\ pc[p] = "login_session"
    /\ LET found == findSession(req[p].ip, req[p].user.id)
       IN IF found = None
          THEN Suspend(p, "login_create", req[p]) /\ UNCHANGED sessions
          ELSE /\ sessions' = (sessions (-) SetToBag({found}))
                                (+) SetToBag({[found EXCEPT !.data = deviceData(req[p].userAgent)]})
               /\ LoginGrant(p)
    /\ UNCHANGED <<users, categories, products, now>>

\* findFirst resolves: a session found means tokens are minted at once,
\* none found means await client.session.create
LoginFindSession(p) ==
    /\ pc[p] = "login_session"
    /\ IF findSession(req[p].ip, req[p].user.id) = None
       THEN Suspend(p, "login_create", req[p])
       ELSE LoginGrant(p)
    /\ UNCHANGED <<users, sessions, categories, products, now>>

\* client.session.create resolves; tokens are minted
LoginCreateSession(p) ==
    /\ pc[p] = "login_create"
    /\ sessions' = createSession([userId |-> req[p].user.id,
                                  ip |-> req[p].ip,
                                  data |-> deviceData(req[p].userAgent)])
    /\ LoginGrant(p)
    /\ UNCHANGED <<users, categories, products, now>>

\* ---------------------------------------------------------------- middleware/auth.js
\* an Authorization header is "<scheme> <rest...>"; split(" ") gives scheme followed by rest
NoHeader == [present |-> FALSE, scheme |-> Undefined, rest |-> <<>>]
Header(scheme, rest) == [present |-> TRUE, scheme |-> scheme, rest |-> rest]
EmptyToken   == [kind |-> "empty"]      \* the empty string, as in "Bearer "
GarbageToken == [kind |-> "garbage"]    \* a string that is no JWT

\* req.header("Authorization")?.split(" ")[1]
headerToken(header) ==
    IF header.present /\ Len(header.rest) >= 1 THEN header.rest[1] ELSE None

\* Middleware that decodes the token without verifying it
Middleware_DecodeOnly(header, t) ==
    LET token == headerToken(header)
    IN IF token = None \/ token = EmptyToken
       THEN [next |-> FALSE, status |-> 401, message |-> "Token not found.",
             body |-> None, user |-> None]
       ELSE IF token.kind = "jwt"
       THEN [next |-> TRUE, status |-> 0, message |-> "", body |-> None,
             user |-> jwtDecoded(token)]
       ELSE [next |-> FALSE, status |-> 401, message |-> "Invalid token.",
             body |-> [kind |-> "error", name |-> "JsonWebTokenError"],
             user |-> None]

\* Middleware(req, res, next) at time t: what it answers, or the principal it attaches
Middleware(header, t) ==
    LET token == headerToken(header)
    IN IF token = None \/ token = EmptyToken
       THEN [next |-> FALSE, status |-> 401, message |-> "Token not found.",
             body |-> None, user |-> None]
       ELSE IF jwtVerify(token, AccessSecret, t) = "none"
       THEN [next |-> TRUE, status |-> 0, message |-> "", body |-> None,
             user |-> jwtDecoded(token)]
       ELSE [next |-> FALSE, status |-> 401, message |-> "Invalid token.",
             body |-> [kind |-> "error", name |-> jwtVerify(token, AccessSecret, t)],
             user |-> None]

\* RoleMiddleware that only looks whether a principal is attached
RoleMiddleware_NoRoleCheck(roles, user) ==
    IF user = None
    THEN [next |-> FALSE, status |-> 401, message |-> "Token is missing or invalid.",
          body |-> None, user |-> user]
    ELSE [next |-> TRUE, status |-> 0, message |-> "", body |-> None, user |-> user]

\* RoleMiddleware(roles)(req, res, next), given what the gate before it left in req.user
RoleMiddleware(roles, user) ==
    IF user = None
    THEN [next |-> FALSE, status |-> 401, message |-> "Token is missing or invalid.",
          body |-> None, user |-> user]
    ELSE IF user.role \notin roles
    THEN [next |-> FALSE, status |-> 403,
          message |-> "You do not have permission to perform this action.",
          body |-> None, user |-> user]
    ELSE [next |-> TRUE, status |-> 0, message |-> "", body |-> None, user |-> user]

\* res.status(...).json(...) of a gate that does not call next()
GateResponse(route, gate) ==
    [Response(route, gate.status, gate.message) EXCEPT !.body = gate.body]

\* the tokens a client can present: those some response handed out, and made-up ones
ForgedToken == jwtSign(1, "admin", "guess", AccessTtl, 0)
KnownTokens ==
    {res[q].AccessToken : q \in {r \in Procs : res[r] # None /\ res[r].AccessToken # None}}
        \cup {res[q].RefreshToken : q \in {r \in Procs : res[r] # None /\ res[r].RefreshToken # None}}
        \cup {GarbageToken, ForgedToken}
Headers ==
    {NoHeader, Header("Bearer", <<>>), Header("Bearer", <<EmptyToken>>)}
        \cup {Header("Bearer", <<t>>) : t \in KnownTokens}

\* ---------------------------------------------------------------- GET /auth/me
\* request arrives; Middleware; then await client.session.findFirst
Me(p, header, ip) ==
    /\ pc[p] = "idle"
    /\ LET gate == Middleware(header, now)
       IN IF ~gate.next
          THEN Respond(p, GateResponse("me", gate))
          ELSE Suspend(p, "me_session", [route |-> "me", ip |-> ip, user |-> gate.user,
                                         session |-> None])
    /\ UNCHANGED <<users, sessions, categories, products, now>>

\* findFirst resolves; then await client.user.findUnique
MeFindSession(p) ==
    /\ pc[p] = "me_session"
    /\ LET session == findSession(req[p].ip, req[p].user.id)
       IN IF session = None
          THEN Respond(p, Response("me", 400, "No sessions found, please log in"))
          ELSE Suspend(p, "me_user", [req[p] EXCEPT !.session = session])
    /\ UNCHANGED <<users, sessions, categories, products, now>>

\* MeFindUser that reads the first user row instead of the session's owner
MeFindUser_FirstUser(p) ==
    /\ pc[p] = "me_user"
    /\ LET user == findUserById(1)
       IN IF user = None
          THEN Respond(p, Response("me", 404, "User not found"))
          ELSE Respond(p, [Response("me", 200, "")
                             EXCEPT !.body = [kind |-> "profile", id |-> user.id, name |-> user.name,
                                              email |-> user.email, role |-> user.role,
                                              status |-> user.status]])
    /\ UNCHANGED <<users, sessions, categories, products, now>>

\* findUnique resolves; res.json(user)
MeFindUser(p) ==
    /\ pc[p] = "me_user"
    /\ LET user == findUserById(req[p].session.userId)
       IN IF user = None
          THEN Respond(p, Response("me", 404, "User not found"))
          ELSE Respond(p, [Response("me", 200, "")
                             EXCEPT !.body = [kind |-> "profile", id |-> user.id, name |-> user.name,
                                              email |-> user.email, role |-> user.role,
                                              status |-> user.status]])
    /\ UNCHANGED <<users, sessions, categories, products, now>>

\* ---------------------------------------------------------------- GET /auth/my-sessions
MySessions(p, header) ==
    /\ pc[p] = "idle"
    /\ LET gate == Middleware(header, now)
       IN IF ~gate.next
          THEN Respond(p, GateResponse("my-sessions", gate))
          ELSE Suspend(p, "ms_find", [route |-> "my-sessions", user |-> gate.user])
    /\ UNCHANGED <<users, sessions, categories, products, now>>

\* findMany resolves; res.json(sessions)
MySessionsFind(p) ==
    /\ pc[p] = "ms_find"
    /\ Respond(p, [Response("my-sessions", 200, "")
                     EXCEPT !.body = [kind |-> "sessions",
                                      rows |-> findSessionsOf(req[p].user.id)]])
    /\ UNCHANGED <<users, sessions, categories, products, now>>

\* ---------------------------------------------------------------- POST /categories
CategoryPostRoles == {"admin"}

\* request arrives; Middleware; RoleMiddleware(["admin"]); then await client.category.findFirst
CategoryPost(p, header, name) ==
    /\ pc[p] = "idle"
    /\ LET gate == Middleware(header, now)
           role == RoleMiddleware(CategoryPostRoles, gate.user)
       IN IF ~gate.next
          THEN Respond(p, GateResponse("category-post", gate))
          ELSE IF ~role.next
          THEN Respond(p, GateResponse("category-post", role))
          ELSE Suspend(p, "cat_find", [route |-> "category-post", name |-> name,
                                       user |-> role.user])
    /\ UNCHANGED <<users, sessions, categories, products, now>>

\* findFirst resolves; duplicate check; categoryPostSchema.validate;
\* then await client.category.create
CategoryPostFind(p) ==
    /\ pc[p] = "cat_find"
    /\ IF findCategoryByName(req[p].name) # None
       THEN Respond(p, Response("category-post", 400, "Category already exists"))
       ELSE IF req[p].name = ShortCategory
       THEN Respond(p, Response("category-post", 400, "name"))
       ELSE Suspend(p, "cat_create", req[p])
    /\ UNCHANGED <<users, sessions, categories, products, now>>

\* create resolves; res.json(newCategory)
CategoryPostCreate(p) ==
    /\ pc[p] = "cat_create"
    /\ Len(categories) < MaxCategories
    /\ LET newCategory == [kind |-> "category", id |-> Len(categories) + 1, name |-> req[p].name]
       IN /\ categories' = Append(categories, newCategory)
          /\ Respond(p, [Response("category-post", 200, "") EXCEPT !.body = newCategory])
    /\ UNCHANGED <<users, sessions, products, now>>

\* ---------------------------------------------------------------- PATCH /categories/:id
CategoryPatchRoles == {"admin", "super-admin"}
PatchIds   == {1, 2}                            \* req.params.id, taken as the row id it denotes
PatchNames == {Undefined, "Games", ShortCategory}  \* req.body.name, optional

\* client.category.findUnique({ where: { id } })
findCategoryById(id) ==
    IF id \in 1..Len(categories) /\ categories[id] # Deleted THEN categories[id] ELSE None

\* request arrives; Middleware; RoleMiddleware(["admin", "super-admin"]);
\* then await client.category.findUnique
CategoryPatch(p, header, id, name) ==
    /\ pc[p] = "idle"
    /\ LET gate == Middleware(header, now)
           role == RoleMiddleware(CategoryPatchRoles, gate.user)
       IN IF ~gate.next
          THEN Respond(p, GateResponse("category-patch", gate))
          ELSE IF ~role.next
          THEN Respond(p, GateResponse("category-patch", role))
          ELSE Suspend(p, "catp_find", [route |-> "category-patch", id |-> id, name |-> name,
                                        user |-> role.user, category |-> None])
    /\ UNCHANGED <<users, sessions, categories, products, now>>

\* findUnique resolves; categoryPatchSchema.validate; then await client.category.update
CategoryPatchFind(p) ==
    /\ pc[p] = "catp_find"
    /\ LET category == findCategoryById(req[p].id)
       IN IF category = None
          THEN Respond(p, Response("category-patch", 404, "Category not found"))
          ELSE IF req[p].name = ShortCategory
          THEN Respond(p, Response("category-patch", 400, "name"))
          ELSE Suspend(p, "catp_update", [req[p] EXCEPT !.category = category])
    /\ UNCHANGED <<users, sessions, categories, products, now>>

\* update({ where: { id }, data: req.body }) resolves; res.json(category) sends the
\* row as it was read before the update.  update of a row that is gone throws,
\* which the catch answers with 500.
CategoryPatchUpdate(p) ==
    /\ pc[p] = "catp_update"
    /\ IF findCategoryById(req[p].id) = None
       THEN /\ Respond(p, Response("category-patch", 500, "error.message"))
            /\ UNCHANGED categories
       ELSE /\ categories' = [i \in 1..Len(categories) |->
                                IF i = req[p].id /\ req[p].name # Undefined
                                THEN [categories[i] EXCEPT !.name = req[p].name]
                                ELSE categories[i]]
            /\ Respond(p, [Response("category-patch", 200, "") EXCEPT !.body = req[p].category])
    /\ UNCHANGED <<users, sessions, products, now>>

\* ---------------------------------------------------------------- DELETE /categories/:id
CategoryDeleteRoles == {"admin"}

\* the products that refer to the category (Product.categoryId references Category.id)
productsOf(categoryId) ==
    {i \in 1..Len(products) : products[i] # Deleted /\ products[i].categoryId = categoryId}

\* request arrives; Middleware; RoleMiddleware(["admin"]); then await client.category.findUnique
CategoryDelete(p, header, id) ==
    /\ pc[p] = "idle"
    /\ LET gate == Middleware(header, now)
           role == RoleMiddleware(CategoryDeleteRoles, gate.user)
       IN IF ~gate.next
          THEN Respond(p, GateResponse("category-delete", gate))
          ELSE IF ~role.next
          THEN Respond(p, GateResponse("category-delete", role))
          ELSE Suspend(p, "catd_find", [route |-> "category-delete", id |-> id,
                                        user |-> role.user])
    /\ UNCHANGED <<users, sessions, categories, products, now>>

\* findUnique resolves; then await client.category.delete
CategoryDeleteFind(p) ==
    /\ pc[p] = "catd_find"
    /\ IF findCategoryById(req[p].id) = None
       THEN Respond(p, Response("category-delete", 404, "Category not found"))
       ELSE Suspend(p, "catd_delete", req[p])
    /\ UNCHANGED <<users, sessions, categories, products, now>>

\* delete({ where: { id } }) resolves; it throws when the row is gone or a product
\* still refers to it (ON DELETE RESTRICT), which the catch answers with 500
CategoryDeleteDelete(p) ==
    /\ pc[p] = "catd_delete"
    /\ IF findCategoryById(req[p].id) = None \/ productsOf(req[p].id) # {}
       THEN /\ Respond(p, Response("category-delete", 500, "error.message"))
            /\ UNCHANGED categories
       ELSE /\ categories' = [categories EXCEPT ![req[p].id] = Deleted]
            /\ Respond(p, Response("category-delete", 200, "Category deleted"))
    /\ UNCHANGED <<users, sessions, products, now>>

\* ---------------------------------------------------------------- GET /resurses
\* the resources router calls logger.info / logger.error, and no binding named
\* `logger` is declared, imported or set as a global anywhere: evaluating the
\* identifier throws ReferenceError
loggerThrows == TRUE

\* res.json on a response that was sent already throws ERR_HTTP_HEADERS_SENT
sendThrows(sends) == sends >= 1

\* the catch block of GET /resurses, entered with `sends` responses sent so far and
\* r the response on the wire: res.status(500).json, then logger.error
resourcesGetCatch(r, sends) ==
    IF sendThrows(sends)
    THEN [r EXCEPT !.sends = sends + 1, !.uncaught = TRUE]
    ELSE [Response("resources-get", 500, "error.message") EXCEPT !.uncaught = loggerThrows]

\* request arrives (no gate); the query is parsed; await client.product.findMany
ResourcesGet(p) ==
    /\ pc[p] = "idle"
    /\ Suspend(p, "rs_find", [route |-> "resources-get"])
    /\ UNCHANGED <<users, sessions, categories, products, now>>

\* findMany resolves; res.json({ resurses }); logger.info, whose exception enters
\* the handler's catch
ResourcesGetFind(p) ==
    /\ pc[p] = "rs_find"
    /\ LET sent == [Response("resources-get", 200, "")
                      EXCEPT !.body = [kind |-> "resurses",
                                       rows |-> SelectSeq(products, LAMBDA r : r # Deleted)]]
       IN Respond(p, IF loggerThrows THEN resourcesGetCatch(sent, 1) ELSE sent)
    /\ UNCHANGED <<users, sessions, categories, products, now>>

\* findMany rejects; control enters the handler's catch with nothing sent
ResourcesGetFails(p) ==
    /\ pc[p] = "rs_find"
    /\ Respond(p, resourcesGetCatch(None, 0))
    /\ UNCHANGED <<users, sessions, categories, products, now>>

\* ---------------------------------------------------------------- POST /resurses
ResourceNames == {"Pen"}
ShortResource == "P"                            \* shorter than min(2)
ResourcePrice == <<"price", "100">>             \* req.body.price, one value
ResourceRenames == {Undefined, "Ink", ShortResource}   \* req.body.name of a PATCH, optional

\* client.product.findUnique({ where: { id } })
findProductById(id) ==
    IF id \in 1..Len(products) /\ products[id] # Deleted THEN products[id] ELSE None

\* the catch block of PATCH and DELETE /resurses/:id, entered with `sends` responses
\* sent so far and r the response on the wire: res.status(500).json, then logger.error
resourceCatch(route, r, sends) ==
    IF sendThrows(sends)
    THEN [r EXCEPT !.sends = sends + 1, !.uncaught = TRUE]
    ELSE [Response(route, 500, "error.message") EXCEPT !.uncaught = loggerThrows]

\* request arrives; Middleware; the !req.user check; resursPostSchema.validate;
\* then await client.category.findUnique
ResourcePost(p, header, name, categoryId) ==
    /\ pc[p] = "idle"
    /\ LET gate == Middleware(header, now)
       IN IF ~gate.next
          THEN Respond(p, GateResponse("resource-post", gate))
          ELSE IF name = ShortResource
          THEN Respond(p, Response("resource-post", 400, "name"))
          ELSE Suspend(p, "rsp_find", [route |-> "resource-post", name |-> name,
                                       price |-> ResourcePrice, categoryId |-> categoryId,
                                       user |-> gate.user])
    /\ UNCHANGED <<users, sessions, categories, products, now>>

\* findUnique resolves; then await client.product.create
ResourcePostFind(p) ==
    /\ pc[p] = "rsp_find"
    /\ IF findCategoryById(req[p].categoryId) = None
       THEN Respond(p, Response("resource-post", 400, "Category not found"))
       ELSE Suspend(p, "rsp_create", req[p])
    /\ UNCHANGED <<users, sessions, categories, products, now>>

\* create resolves with userId = req.user.id; res.status(201).json(newResurs);
\* logger.info throws into the catch, whose first statement logger.error throws
\* again, before any second response.  create throws when the category is gone
\* (foreign key): logger.error throws out of the catch and nothing is sent.
ResourcePostCreate(p) ==
    /\ pc[p] = "rsp_create"
    /\ Len(products) < MaxProducts
    /\ IF findCategoryById(req[p].categoryId) = None
       THEN /\ Respond(p, [Response("resource-post", 0, "")
                             EXCEPT !.sends = IF loggerThrows THEN 0 ELSE 1,
                                    !.status = IF loggerThrows THEN 0 ELSE 500,
                                    !.uncaught = loggerThrows])
            /\ UNCHANGED products
       ELSE LET newResurs == [kind |-> "product", id |-> Len(products) + 1,
                              name |-> req[p].name, price |-> req[p].price,
                              categoryId |-> req[p].categoryId, userId |-> req[p].user.id]
            IN /\ products' = Append(products, newResurs)
               /\ Respond(p, [Response("resource-post", 201, "")
                                EXCEPT !.body = newResurs, !.uncaught = loggerThrows])
    /\ UNCHANGED <<users, sessions, categories, now>>

\* ---------------------------------------------------------------- PATCH /resurses/:id
ResourcePatchRoles == {"admin", "super-admin"}

\* request arrives; Middleware; the !req.user check; then await client.product.findUnique
ResourcePatch(p, header, id, name) ==
    /\ pc[p] = "idle"
    /\ LET gate == Middleware(header, now)
       IN IF ~gate.next
          THEN Respond(p, GateResponse("resource-patch", gate))
          ELSE Suspend(p, "rsu_find", [route |-> "resource-patch", id |-> id, name |-> name,
                                       user |-> gate.user])
    /\ UNCHANGED <<users, sessions, categories, products, now>>

\* ResourcePatchFind with the role and owner comparison left out
ResourcePatchFind_NoOwnerCheck(p) ==
    /\ pc[p] = "rsu_find"
    /\ LET resurs == findProductById(req[p].id)
       IN IF resurs = None
          THEN Respond(p, Response("resource-patch", 404, "Resource not found"))
          ELSE IF req[p].name = ShortResource
          THEN Respond(p, Response("resource-patch", 400, "name"))
          ELSE Suspend(p, "rsu_update", req[p])
    /\ UNCHANGED <<users, sessions, categories, products, now>>

\* findUnique resolves; the role and owner comparison; resursPatchSchema.validate;
\* then await client.product.update
ResourcePatchFind(p) ==
    /\ pc[p] = "rsu_find"
    /\ LET resurs == findProductById(req[p].id)
       IN IF resurs = None
          THEN Respond(p, Response("resource-patch", 404, "Resource not found"))
          ELSE IF ~(req[p].user.role \in ResourcePatchRoles \/ req[p].user.id = resurs.userId)
          THEN Respond(p, Response("resource-patch", 403, "Access denied"))
          ELSE IF req[p].name = ShortResource
          THEN Respond(p, Response("resource-patch", 400, "name"))
          ELSE Suspend(p, "rsu_update", req[p])
    /\ UNCHANGED <<users, sessions, categories, products, now>>

\* update({ where: { id }, data: req.body }) resolves; res.json(updatedResurs);
\* logger.info throws into the catch.  update of a row that is gone throws.
ResourcePatchUpdate(p) ==
    /\ pc[p] = "rsu_update"
    /\ IF findProductById(req[p].id) = None
       THEN /\ Respond(p, resourceCatch("resource-patch", None, 0))
            /\ UNCHANGED products
       ELSE LET updatedResurs == IF req[p].name = Undefined THEN products[req[p].id]
                                 ELSE [products[req[p].id] EXCEPT !.name = req[p].name]
                sent == [Response("resource-patch", 200, "") EXCEPT !.body = updatedResurs]
            IN /\ products' = [products EXCEPT ![req[p].id] = updatedResurs]
               /\ Respond(p, IF loggerThrows THEN resourceCatch("resource-patch", sent, 1)
                             ELSE sent)
    /\ UNCHANGED <<users, sessions, categories, now>>

\* ---------------------------------------------------------------- DELETE /resurses/:id
ResourceDeleteRoles == {"admin"}

\* request arrives; Middleware; the !req.user check; then await client.product.findUnique
ResourceDelete(p, header, id) ==
    /\ pc[p] = "idle"
    /\ LET gate == Middleware(header, now)
       IN IF ~gate.next
          THEN Respond(p, GateResponse("resource-delete", gate))
          ELSE Suspend(p, "rsd_find", [route |-> "resource-delete", id |-> id,
                                       user |-> gate.user])
    /\ UNCHANGED <<users, sessions, categories, products, now>>

\* findUnique resolves; the role and owner comparison; then await client.product.delete
ResourceDeleteFind(p) ==
    /\ pc[p] = "rsd_find"
    /\ LET resurs == findProductById(req[p].id)
       IN IF resurs = None
          THEN Respond(p, Response("resource-delete", 404, "Resource not found"))
          ELSE IF ~(req[p].user.role \in ResourceDeleteRoles \/ req[p].user.id = resurs.userId)
          THEN Respond(p, Response("resource-delete", 403, "Access denied"))
          ELSE Suspend(p, "rsd_delete", req[p])
    /\ UNCHANGED <<users, sessions, categories, products, now>>

\* delete({ where: { id } }) resolves; res.json; logger.info throws into the catch.
\* delete of a row that is gone throws.
ResourceDeleteDelete(p) ==
    /\ pc[p] = "rsd_delete"
    /\ IF findProductById(req[p].id) = None
       THEN /\ Respond(p, resourceCatch("resource-delete", None, 0))
            /\ UNCHANGED products
       ELSE /\ products' = [products EXCEPT ![req[p].id] = Deleted]
            /\ LET sent == Response("resource-delete", 200, "Resource deleted")
               IN Respond(p, IF loggerThrows THEN resourceCatch("resource-delete", sent, 1)
                             ELSE sent)
    /\ UNCHANGED <<users, sessions, categories, now>>

\* ---------------------------------------------------------------- store failures
\* the labels at which an /auth handler awaits a call of the prisma client
StoreLabels ==
    {"reg_find", "reg_create", "otp_find", "ver_find", "ver_update", "login_user",
     "login_session", "login_create", "me_session", "me_user", "ms_find"}

\* what the catch block of each /auth handler answers
CatchResponse(route) ==
    IF route = "send-otp" THEN Response(route, 500, "error.message")
    ELSE IF route = "register" THEN Response(route, 500, "Server error")
    ELSE IF route = "verify" THEN Response(route, 500, "Internal server error")
    ELSE IF route = "login" THEN Response(route, 500, "Internal server error")
    ELSE IF route = "me" THEN Response(route, 401, "Problem with token")
    ELSE Response(route, 500, "server error")

\* the store call the handler of slot p awaits rejects (connection lost, query
\* error); nothing is written and control enters the handler's catch
StoreFails(p) ==
    /\ pc[p] \in StoreLabels
    /\ Respond(p, CatchResponse(req[p].route))
    /\ UNCHANGED <<users, sessions, categories, products, now>>

\* ---------------------------------------------------------------- specification
RoleInputs     == {Undefined, "admin"}         \* the roles registrations ask for
BadRole        == "super-admin"                \* not one of the schema's roles
\* the bodies of /auth/register requests: the well-formed ones for the given addresses
\* and roles, and one with each field malformed
RegisterBodies(emails, roles) ==
    {[name |-> GoodName, email |-> e, password |-> GoodPassword, role |-> r] :
        e \in emails, r \in roles}
    \cup {[name |-> ShortName, email |-> e, password |-> GoodPassword, role |-> Undefined] :
            e \in emails}
    \cup {[name |-> GoodName, email |-> BadEmail, password |-> GoodPassword, role |-> Undefined]}
    \cup {[name |-> GoodName, email |-> e, password |-> ShortPassword, role |-> Undefined] :
            e \in emails}
    \cup {[name |-> GoodName, email |-> e, password |-> GoodPassword, role |-> BadRole] :
            e \in emails}
CategoryInputs == CategoryNames \cup {ShortCategory}

\* a request to one of the /auth routes arrives on a free slot, its fields drawn
\* from the given addresses, roles and origins
ArriveAuth(p, emails, roles, ips) ==
    \/ \E body \in RegisterBodies(emails, roles) :
          Register(p, body.name, body.email, body.password, body.role)
    \/ \E email \in emails : SendOtp(p, email)
    \/ \E email \in emails, otp \in OtpInputs(now) : Verify(p, email, otp)
    \/ \E email \in emails, password \in Passwords, ip \in ips, userAgent \in UserAgents :
          Login(p, email, password, ip, userAgent)
    \/ \E header \in Headers, ip \in ips : Me(p, header, ip)
    \/ \E header \in Headers : MySessions(p, header)

\* a request to /categories arrives on a free slot
ArriveCategory(p) ==
    \E header \in Headers, name \in CategoryInputs : CategoryPost(p, header, name)

\* a suspended /auth handler resumes
ResumeAuth(p) ==
    \/ RegisterFind(p) \/ RegisterMail(p) \/ RegisterCreate(p)
    \/ SendOtpFind(p) \/ SendOtpMail(p)
    \/ VerifyFind(p) \/ VerifyUpdate(p)
    \/ LoginFindUser(p) \/ LoginFindSession(p) \/ LoginCreateSession(p)
    \/ MeFindSession(p) \/ MeFindUser(p)
    \/ MySessionsFind(p)

\* a suspended /categories handler resumes
ResumeCategory(p) ==
    CategoryPostFind(p) \/ CategoryPostCreate(p)

\* the whole system, with the clock, serving one request after the other
SerialProcs == {1}
Next ==
    \/ \E p \in SerialProcs : ArriveAuth(p, Emails, RoleInputs, IPs)
    \/ \E p \in SerialProcs : ArriveCategory(p)
    \/ \E p \in SerialProcs : ResumeAuth(p)
    \/ \E p \in SerialProcs : ResumeCategory(p)
    \/ Tick

Spec == Init /\ [][Next]_vars

\* the /auth routes with requests in flight together, interleaved at their awaits
ConcRoles == {Undefined}
ConcIPs   == {"10.0.0.1"}
ConcNext ==
    \/ \E p \in Procs : ArriveAuth(p, Emails, ConcRoles, ConcIPs)
    \/ \E p \in Procs : ResumeAuth(p)

ConcSpec == Init /\ [][ConcNext]_vars

\* the /auth routes and the resource listing, one request after the other, with
\* store calls that can fail
FailNext ==
    \/ \E p \in SerialProcs : ArriveAuth(p, Emails, ConcRoles, ConcIPs)
    \/ \E p \in SerialProcs : ResumeAuth(p)
    \/ \E p \in SerialProcs : StoreFails(p)
    \/ \E p \in SerialProcs : ResourcesGet(p)
    \/ \E p \in SerialProcs : ResourcesGetFind(p)
    \/ \E p \in SerialProcs : ResourcesGetFails(p)

FailSpec == Init /\ [][FailNext]_vars

\* registration, code requests and verification in flight together, with the clock.
\* A client can submit, besides OtpInputs, the code of a mail that is being sent.
MailLabels == {"reg_mail", "otp_mail"}
MailedOtps == {req[q].otp : q \in {r \in Procs : pc[r] \in MailLabels}}
ArriveOtp(p) ==
    \/ \E email \in Emails : Register(p, GoodName, email, GoodPassword, Undefined)
    \/ \E email \in Emails : SendOtp(p, email)
    \/ \E email \in Emails, otp \in OtpInputs(now) \cup MailedOtps : Verify(p, email, otp)
ResumeOtp(p) ==
    \/ RegisterFind(p) \/ RegisterMail(p) \/ RegisterCreate(p)
    \/ SendOtpFind(p) \/ SendOtpMail(p)
    \/ VerifyFind(p) \/ VerifyUpdate(p)
OtpNext ==
    \/ \E p \in Procs : ArriveOtp(p)
    \/ \E p \in Procs : ResumeOtp(p)
    \/ Tick

OtpSpec == Init /\ [][OtpNext]_vars

\* register and send-otp in flight together.  A store call settles and the event
\* loop resumes the handler that awaits it; transporter.sendMail is a call to an
\* outside mail service made without a timeout, and nothing makes it settle.
ArriveMail(p) ==
    \/ \E body \in RegisterBodies(Emails, ConcRoles) :
          Register(p, body.name, body.email, body.password, body.role)
    \/ \E email \in Emails : SendOtp(p, email)
StoreSettles(p) ==
    RegisterFind(p) \/ RegisterCreate(p) \/ SendOtpFind(p)
MailSettles(p) ==
    RegisterMail(p) \/ SendOtpMail(p)
MailNext ==
    \/ \E p \in Procs : ArriveMail(p)
    \/ \E p \in Procs : StoreSettles(p)
    \/ \E p \in Procs : MailSettles(p)

MailSpec ==
    /\ Init
    /\ [][MailNext]_vars
    /\ \A p \in Procs : WF_vars(StoreSettles(p))

\* registration, verification and logins from several devices and origins, one
\* request after the other
ArriveSession(p) ==
    \/ \E email \in Emails : Register(p, GoodName, email, GoodPassword, Undefined)
    \/ \E email \in Emails, otp \in OtpInputs(now) : Verify(p, email, otp)
    \/ \E email \in Emails, password \in Passwords, ip \in IPs, userAgent \in DeviceAgents :
          Login(p, email, password, ip, userAgent)
ResumeSession(p) ==
    \/ RegisterFind(p) \/ RegisterMail(p) \/ RegisterCreate(p)
    \/ VerifyFind(p) \/ VerifyUpdate(p)
    \/ LoginFindUser(p) \/ LoginFindSession(p) \/ LoginCreateSession(p)
SessionNext ==
    \/ \E p \in SerialProcs : ArriveSession(p)
    \/ \E p \in SerialProcs : ResumeSession(p)

SessionSpec == Init /\ [][SessionNext]_vars

\* registration under every role the schema accepts, verification, login and the
\* role-gated category routes (create, update, delete), one request after the other
ArriveRole(p) ==
    \/ \E email \in Emails, role \in RegisterRoles :
          Register(p, GoodName, email, GoodPassword, role)
    \/ \E email \in Emails : Verify(p, email, TotpGenerate(OtpSecret(email), now))
    \/ \E email \in Emails, userAgent \in UserAgents :
          Login(p, email, GoodPassword, "10.0.0.1", userAgent)
    \/ \E header \in Headers, name \in CategoryInputs : CategoryPost(p, header, name)
    \/ \E header \in Headers, id \in PatchIds, name \in PatchNames :
          CategoryPatch(p, header, id, name)
    \/ \E header \in Headers, id \in PatchIds : CategoryDelete(p, header, id)
ResumeRole(p) ==
    \/ RegisterFind(p) \/ RegisterMail(p) \/ RegisterCreate(p)
    \/ VerifyFind(p) \/ VerifyUpdate(p)
    \/ LoginFindUser(p) \/ LoginFindSession(p) \/ LoginCreateSession(p)
    \/ CategoryPostFind(p) \/ CategoryPostCreate(p)
    \/ CategoryPatchFind(p) \/ CategoryPatchUpdate(p)
    \/ CategoryDeleteFind(p) \/ CategoryDeleteDelete(p)
RoleNext ==
    \/ \E p \in SerialProcs : ArriveRole(p)
    \/ \E p \in SerialProcs : ResumeRole(p)

RoleSpec == Init /\ [][RoleNext]_vars

\* registration under every role, verification, login, category creation and the
\* resource routes (create, update, delete), one request after the other
ArriveResource(p) ==
    \/ \E email \in Emails, role \in RegisterRoles :
          Register(p, GoodName, email, GoodPassword, role)
    \/ \E email \in Emails : Verify(p, email, TotpGenerate(OtpSecret(email), now))
    \/ \E email \in Emails, userAgent \in UserAgents :
          Login(p, email, GoodPassword, "10.0.0.1", userAgent)
    \/ \E header \in Headers, name \in CategoryNames : CategoryPost(p, header, name)
    \/ \E header \in Headers, name \in ResourceNames \cup {ShortResource}, categoryId \in PatchIds :
          ResourcePost(p, header, name, categoryId)
    \/ \E header \in Headers, id \in PatchIds, name \in ResourceRenames :
          ResourcePatch(p, header, id, name)
    \/ \E header \in Headers, id \in PatchIds : ResourceDelete(p, header, id)
ResumeResource(p) ==
    \/ RegisterFind(p) \/ RegisterMail(p) \/ RegisterCreate(p)
    \/ VerifyFind(p) \/ VerifyUpdate(p)
    \/ LoginFindUser(p) \/ LoginFindSession(p) \/ LoginCreateSession(p)
    \/ CategoryPostFind(p) \/ CategoryPostCreate(p)
    \/ ResourcePostFind(p) \/ ResourcePostCreate(p)
    \/ ResourcePatchFind(p) \/ ResourcePatchUpdate(p)
    \/ ResourceDeleteFind(p) \/ ResourceDeleteDelete(p)
ResourceNext ==
    \/ \E p \in SerialProcs : ArriveResource(p)
    \/ \E p \in SerialProcs : ResumeResource(p)

ResourceSpec == Init /\ [][ResourceNext]_vars

\* ================================================================ properties

\* number of rows of a session table with this ip and userId
SessionCount(table, ip, userId) ==
    BagCardinality([s \in {r \in BagToSet(table) : r.ip = ip /\ r.userId = userId} |-> table[s]])

\* slot p's handler of the given route sends its response in this step
Responds(p, route) ==
    /\ pc[p] # "idle"
    /\ req[p].route = route
    /\ pc'[p] = "idle"

\* slot p's last request was to the given route and was answered with the given status
Answered(p, route, status) ==
    /\ res[p] # None
    /\ res[p].route = route
    /\ res[p].status = status

\* C1: in every reachable state, also with /auth/login requests interleaved between
\* the session lookup and the session create, the session table holds at most one
\* row for any (userId, ip) pair.
C1_AtMostOneSessionPerUserIp ==
    \A s \in BagToSet(sessions) : SessionCount(sessions, s.ip, s.userId) <= 1

\* C2: when logins are served one after the other, every successful /auth/login
\* leaves exactly one session row for its (userId, ip), whatever the number of
\* logins before it, and no pair ever has more than one row.
C2_OneSessionAfterSequentialLogins ==
    [][/\ \A p \in Procs :
            (Responds(p, "login") /\ res'[p].status = 200)
                => SessionCount(sessions', req[p].ip, req[p].user.id) = 1
       /\ \A s \in BagToSet(sessions') : SessionCount(sessions', s.ip, s.userId) <= 1]_vars

\* a further login is under way for a pair that already holds its one row
C2_Witness ==
    \E p \in Procs :
        /\ pc[p] = "login_session"
        /\ SessionCount(sessions, req[p].ip, req[p].user.id) = 1

\* C3: a user row appears only through /auth/register and then has status pending;
\* the only change of a row's status is pending -> active, made by a /auth/verify
\* whose submitted code is the code of that row's email; no row is removed and no
\* active row goes back to pending.
C3_StatusOnlyPendingToActive ==
    [][/\ Len(users') >= Len(users)
       /\ \A i \in 1..Len(users') :
            IF i > Len(users)
            THEN /\ users'[i].status = "pending"
                 /\ \E p \in Procs : Responds(p, "register") /\ req[p].email = users'[i].email
            ELSE users'[i].status # users[i].status
                    => /\ users[i].status = "pending"
                       /\ users'[i].status = "active"
                       /\ \E p \in Procs :
                             /\ Responds(p, "verify")
                             /\ req[p].email = users[i].email
                             /\ req[p].otp.secret = <<users[i].email, "soz">>]_vars

\* one user has been verified while another is still pending
C3_Witness ==
    /\ \E i \in 1..Len(users) : users[i].status = "active"
    /\ \E i \in 1..Len(users) : users[i].status = "pending"

\* C4: a /auth/login response carries tokens only if a user with the submitted email
\* exists, is active and the submitted password matches the stored hash; a login
\* that is refused carries a message and no token, and its request has created no
\* session row.
C4_TokensOnlyAfterAllChecks ==
    [][\A p \in Procs :
         Responds(p, "login") =>
            IF res'[p].AccessToken # None \/ res'[p].RefreshToken # None
            THEN /\ res'[p].status = 200
                 /\ res'[p].AccessToken # None /\ res'[p].RefreshToken # None
                 /\ \E i \in 1..Len(users) :
                       /\ users[i].email = req[p].email
                       /\ users[i].status = "active"
                       /\ users[i].password = [alg |-> "bcrypt", of |-> req[p].password]
            ELSE /\ res'[p].status # 200
                 /\ res'[p].message # ""
                 /\ pc[p] = "login_user"
                 /\ sessions' = sessions]_vars

\* one login has been granted tokens and another has been refused for its password
C4_Witness ==
    \E p, q \in Procs :
        /\ Answered(p, "login", 200) /\ res[p].AccessToken # None
        /\ Answered(q, "login", 400) /\ res[q].message = "Incorrect password"

Arrives(p, route) ==
    /\ pc[p] = "idle"
    /\ now' = now
    /\ IF pc'[p] # "idle"
       THEN req'[p].route = route
       ELSE res'[p] # None /\ res'[p].route = route

\* the Authorization header carries a token
Carries(h) == h.present /\ Len(h.rest) >= 1 /\ h.rest[1] # [kind |-> "empty"]
\* the token is signed with the access-token secret and has not expired at time t
GoodAccess(tok, t) == tok.kind = "jwt" /\ tok.key = "soz" /\ t < tok.exp
\* the first gate lets the request of slot p, arriving with header h, through only
\* with a good token, attaching its claims, and answers 401 otherwise
GateOutcome(p, h) ==
    /\ pc'[p] # "idle" =>
          /\ Carries(h)
          /\ GoodAccess(h.rest[1], now)
          /\ req'[p].user.id = h.rest[1].id
          /\ req'[p].user.role = h.rest[1].role
    /\ ~Carries(h) =>
          /\ pc'[p] = "idle" /\ req'[p] = None
          /\ res'[p].status = 401
    /\ (Carries(h) /\ ~GoodAccess(h.rest[1], now)) =>
          /\ pc'[p] = "idle" /\ req'[p] = None
          /\ res'[p].status = 401

\* C6: a protected request reaches its handler only when its Authorization header
\* carries a token that verifies under the access-token secret and is unexpired,
\* and then the attached principal has the token's id and role; with the header or
\* the token absent, and with a token that fails verification, the answer is 401,
\* no principal is attached and the handler is not called.
C6_AuthenticationGate ==
    [][\A p \in Procs :
         /\ Arrives(p, "me") =>
               \A h \in Headers, ip \in IPs : Me(p, h, ip) => GateOutcome(p, h)
         /\ Arrives(p, "my-sessions") =>
               \A h \in Headers : MySessions(p, h) => GateOutcome(p, h)
         /\ Arrives(p, "category-post") =>
               \A h \in Headers, name \in CategoryInputs :
                  CategoryPost(p, h, name) => GateOutcome(p, h)]_vars

\* a /auth/me handler is running with the principal of an admin's token
C6_Witness ==
    \E p \in Procs :
        /\ pc[p] = "me_session"
        /\ req[p].user.role = "admin"

\* C7: an access token handed out by a login is accepted by the gate at every time
\* before 15 minutes (AccessTtl ticks) have passed since it was issued, and is
\* answered with 401 at every time after.
C7_AccessTokenExpiry ==
    [][\A p, q \in Procs :
         (/\ res[q] # None /\ res[q].route = "login" /\ res[q].status = 200
          /\ pc[p] = "idle" /\ now' = now) =>
            LET tok == res[q].AccessToken
                h == [present |-> TRUE, scheme |-> "Bearer", rest |-> <<tok>>]
            IN /\ \A ip \in IPs : Me(p, h, ip) =>
                     /\ now < tok.iat + AccessTtl => pc'[p] = "me_session"
                     /\ now > tok.iat + AccessTtl => pc'[p] = "idle" /\ res'[p].status = 401
               /\ MySessions(p, h) =>
                     /\ now < tok.iat + AccessTtl => pc'[p] = "ms_find"
                     /\ now > tok.iat + AccessTtl => pc'[p] = "idle" /\ res'[p].status = 401]_vars

\* a request was answered 401 because its token, good when issued, had expired
C7_Witness ==
    \E p \in Procs :
        /\ res[p] # None
        /\ res[p].status = 401
        /\ res[p].body = [kind |-> "error", name |-> "TokenExpiredError"]

\* the role names a principal can carry or a gate can name
AllRoles == {"user", "admin", "super_admin", "super-admin"}

\* C8: for an authenticated principal with role r, a gate configured with the role
\* set R answers 403 without running the handler if r is not in R, and proceeds if
\* r is in R; on POST /categories, configured with {"admin"}, role "user" is
\* answered 403 and role "admin" reaches the handler.
C8_AuthorizationGate ==
    [][\A p \in Procs :
         Arrives(p, "category-post") =>
            \A h \in Headers, name \in CategoryInputs :
               (Carries(h) /\ GoodAccess(h.rest[1], now) /\ CategoryPost(p, h, name)) =>
                  LET r == h.rest[1].role
                  IN /\ r # "admin" =>
                           /\ pc'[p] = "idle" /\ res'[p].status = 403
                           /\ categories' = categories
                     /\ r = "admin" => pc'[p] = "cat_find"
                     /\ \A R \in SUBSET AllRoles :
                           LET gate == RoleMiddleware(R, [kind |-> "principal",
                                                          id |-> h.rest[1].id, role |-> r,
                                                          iat |-> h.rest[1].iat,
                                                          exp |-> h.rest[1].exp])
                           IN /\ gate.next = (r \in R)
                              /\ r \notin R => gate.status = 403]_vars

\* an admin's request has created a category and a later request was answered 403
C8_Witness ==
    /\ categories # <<>>
    /\ \E p \in Procs : Answered(p, "category-post", 403)

\* C9 as claimed: a /auth/me request that carries the unexpired access token of a
\* login is answered 200 with the profile of the token's user.
C9_MeAnswers200 ==
    [][\A p \in Procs :
         Responds(p, "me") =>
            /\ res'[p].status = 200
            /\ res'[p].body.email = users[req[p].user.id].email]_vars

\* C9 as amended: a successful login leaves a session row for its user and IP, rows
\* are never removed, and a /auth/me request that carries the unexpired access
\* token of a login and comes from an IP with a session row of the token's user is
\* answered 200 with that user's profile, its email the registered one.
C9_MeFromLoginIp ==
    [][/\ \A p \in Procs :
            (Responds(p, "login") /\ res'[p].status = 200)
                => SessionCount(sessions', req[p].ip, req[p].user.id) >= 1
       /\ \A s \in BagToSet(sessions) :
            SessionCount(sessions', s.ip, s.userId) >= SessionCount(sessions, s.ip, s.userId)
       /\ \A p \in Procs :
            (/\ pc[p] \in {"me_session", "me_user"}
             /\ pc'[p] # pc[p]
             /\ SessionCount(sessions, req[p].ip, req[p].user.id) >= 1)
                => \/ pc[p] = "me_session" /\ pc'[p] = "me_user"
                   \/ /\ pc[p] = "me_user" /\ pc'[p] = "idle"
                      /\ res'[p].status = 200
                      /\ res'[p].body.id = req[p].user.id
                      /\ res'[p].body.email = users[req[p].user.id].email]_vars

\* the second registered user's /auth/me was answered 200 with a profile
C9_Witness ==
    \E p \in Procs :
        /\ Answered(p, "me", 200)
        /\ res[p].body.id = 2
        /\ res[p].body.email \in Emails

\* C10 as claimed: a /auth/verify that is refused, for an invalid code or for an
\* email no user has, is answered with status 400 and changes no user's status.
C10_VerifyFailuresAre400 ==
    [][\A p \in Procs :
         /\ \A email \in Emails, otp \in OtpInputs(now) :
               (Verify(p, email, otp) /\ pc'[p] = "idle")
                   => res'[p].status = 400 /\ users' = users
         /\ (Responds(p, "verify") /\ res'[p].status # 200)
               => res'[p].status = 400 /\ users' = users]_vars

\* ---------------------------------------------------------------- C11
\* C11: a register request with valid input whose email is held by a user when the
\* handler answers (the address was registered before, or another registration
\* completed first while this one was in flight) is answered with 400 and adds no row.
C11_DuplicateEmailIs400 ==
    [][\A p \in Procs :
          Responds(p, "register") /\ findUserByEmail(req[p].email) # None
            => res'[p].status = 400 /\ users' = users]_vars

\* ---------------------------------------------------------------- C12
\* C12: every request gets exactly one response: whatever step of the handler fails
\* (a step after the success response included), res.json / res.send is called once
\* for the request and no exception leaves the handler.
C12_ExactlyOneResponse ==
    \A p \in Procs : res[p] # None => res[p].sends = 1 /\ ~res[p].uncaught

\* ---------------------------------------------------------------- C13
\* C13: in every /auth handler (send-otp, register, verify, login, me, my-sessions)
\* a store call that fails unexpectedly is answered with status 500.
C13_StoreFailureIs500 ==
    [][\A p \in Procs : StoreFails(p) => res'[p].status = 500]_vars

\* ---------------------------------------------------------------- C14
\* C14: whether the mail is sent or the send throws, /auth/register and
\* /auth/send-otp go on in the same way: register proceeds to create the user with
\* the store untouched and answers by the store alone (201 and one new row exactly
\* when the email is free), send-otp answers 200.
C14_MailFailureChangesNothing ==
    [][\A p \in Procs :
          /\ pc[p] = "reg_mail" /\ pc'[p] # "reg_mail"
               => /\ pc'[p] = "reg_create"
                  /\ res'[p] = None
                  /\ users' = users /\ sessions' = sessions
          /\ pc[p] = "otp_mail" /\ pc'[p] # "otp_mail"
               => /\ res'[p] # None /\ res'[p].status = 200
                  /\ users' = users /\ sessions' = sessions
          /\ pc[p] = "reg_create" /\ pc'[p] # "reg_create"
               => /\ res'[p].status = 201 <=> findUserByEmail(req[p].email) = None
                  /\ res'[p].status = 201 <=> Len(users') = Len(users) + 1
                  /\ res'[p].status # 201 => users' = users]_vars

\* a registration whose mail could not be sent goes on to create the user
C14_Witness ==
    \E p \in Procs :
        /\ pc[p] = "reg_create"
        /\ req[p].mailLog = "Error while sending email"
        /\ findUserByEmail(req[p].email) = None

C19_VerifyIdempotent ==
    [][\A p \in Procs :
          /\ Arrives(p, "verify") =>
               \A email \in Emails :
                  /\ Verify(p, email, TotpGenerate(OtpSecret(email), now))
                  /\ findUserByEmail(email) # None
                  /\ findUserByEmail(email).status = "active"
                  => pc'[p] = "ver_find"
          /\ /\ pc[p] \in {"ver_find", "ver_update"} /\ pc'[p] # pc[p]
             /\ findUserByEmail(req[p].email) # None
             /\ findUserByEmail(req[p].email).status = "active"
             => /\ users' = users
                /\ IF pc[p] = "ver_find" THEN pc'[p] = "ver_update"
                   ELSE pc'[p] = "idle" /\ res'[p].status = 200]_vars

\* a verify request with a code that is still current is about to update a user
\* who is active already
C19_Witness ==
    \E p \in Procs :
        /\ pc[p] = "ver_update"
        /\ findUserByEmail(req[p].email) # None
        /\ findUserByEmail(req[p].email).status = "active"
        /\ TotpCheck(req[p].otp, OtpSecret(req[p].email), now)

\* ---------------------------------------------------------------- C16
\* C16: the registration response does not wait for the mail: a register request
\* that passed validation and the duplicate check, and whose mail is being sent, is
\* eventually answered, whether or not the mail dispatch ever completes.
C16_RegisterAnswersWithoutMail ==
    \A p \in Procs :
        (pc[p] = "reg_mail") ~> (pc[p] = "idle" /\ res[p] # None /\ res[p].route = "register")

\* ---------------------------------------------------------------- C17
\* C17: the refresh token a login handed out is signed with another secret than the
\* access token, and presented as the bearer token it is turned away: Middleware
\* answers 401 and attaches no principal, so /auth/me and /auth/my-sessions answer
\* 401 without running their handler.
C17_RefreshTokenIsNoBearer ==
    [][\A q \in Procs : Answered(q, "login", 200) =>
          LET header == Header("Bearer", <<res[q].RefreshToken>>)
          IN /\ res[q].RefreshToken.key # res[q].AccessToken.key
             /\ ~Middleware(header, now).next
             /\ Middleware(header, now).status = 401
             /\ Middleware(header, now).user = None
             /\ \A p \in Procs :
                   /\ \A ip \in ConcIPs : Me(p, header, ip) =>
                         pc'[p] = "idle" /\ req'[p] = None /\ res'[p].status = 401
                   /\ MySessions(p, header) =>
                         pc'[p] = "idle" /\ req'[p] = None /\ res'[p].status = 401]_vars

\* a login handed out a refresh token, the gate refuses it, and /auth/me answered a
\* bearer token with a bad signature 401
C17_Witness ==
    \E p, q \in Procs :
        /\ Answered(q, "login", 200)
        /\ Middleware(Header("Bearer", <<res[q].RefreshToken>>), now).status = 401
        /\ Answered(p, "me", 401)
        /\ res[p].body = [kind |-> "error", name |-> "JsonWebTokenError"]

\* ---------------------------------------------------------------- C18
\* C18: with requests served one after the other, a login for a (userId, ip) pair
\* that has a session row answers 200 without touching the Session table, whatever
\* user-agent it comes with: no row is added and the stored device stays.  No other
\* step of a login writes the table before the lookup.
C18_LoginKeepsExistingSession ==
    [][\A p \in Procs :
          /\ Arrives(p, "login") \/ pc[p] = "login_user" => sessions' = sessions
          /\ /\ pc[p] = "login_session" /\ pc'[p] # pc[p]
             /\ SessionCount(sessions, req[p].ip, req[p].user.id) >= 1
             => /\ sessions' = sessions
                /\ pc'[p] = "idle" /\ res'[p].status = 200]_vars

\* a login from another device than the one stored for its (userId, ip) pair has
\* reached the session lookup
C18_Witness ==
    \E p \in Procs :
        /\ pc[p] = "login_session"
        /\ findSession(req[p].ip, req[p].user.id) # None
        /\ findSession(req[p].ip, req[p].user.id).data # deviceData(req[p].userAgent)

\* ---------------------------------------------------------------- C20
\* C20: the roles above "user" that registration accepts are the roles the gates
\* name: a request to PATCH /categories/:id, whose gate allows the admin and the
\* super-admin role, that carries the good access token of a user registered as
\* admin or as super-admin passes the gate and reaches the handler.
C20_RegisteredRolesPassTheirGate ==
    [][\A p \in Procs :
         Arrives(p, "category-patch") =>
            \A h \in Headers, id \in PatchIds, name \in PatchNames :
               /\ Carries(h) /\ GoodAccess(h.rest[1], now)
               /\ CategoryPatch(p, h, id, name)
               /\ h.rest[1].role \in RegisterRoles \ {"user"}
               => pc'[p] = "catp_find"]_vars

\* ---------------------------------------------------------------- C21
\* the category rows that are present
liveCategories == {i \in 1..Len(categories) : categories[i] # Deleted}

\* C21: whatever category create, update and delete requests have been served, no
\* two category rows have the same name.
C21_CategoryNamesUnique ==
    \A i, j \in liveCategories : categories[i].name = categories[j].name => i = j

\* ---------------------------------------------------------------- C22
\* the principal of slot p's request may change resource row: it owns the row, or
\* its role is privileged for the route (admin or super-admin for PATCH, admin for
\* DELETE)
MayChange(p, row) ==
    \/ req[p].user.id = row.userId
    \/ req[p].route = "resource-patch" /\ req[p].user.role \in {"admin", "super-admin"}
    \/ req[p].route = "resource-delete" /\ req[p].user.role = "admin"

\* C22: a resource row is updated or deleted only by a PATCH / DELETE /resurses/:id
\* request whose principal owns the row or has a privileged role, and the owner of
\* a row never changes; a PATCH or DELETE request for an existing row from any other
\* principal is answered 403 and leaves the table as it was.
C22_OnlyOwnerOrPrivileged ==
    [][/\ \A i \in 1..Len(products) :
             products[i] # Deleted /\ products'[i] # products[i] =>
                /\ products'[i] # Deleted => products'[i].userId = products[i].userId
                /\ \E p \in Procs :
                      /\ pc[p] \in {"rsu_update", "rsd_delete"} /\ pc'[p] = "idle"
                      /\ req[p].id = i
                      /\ MayChange(p, products[i])
       /\ \A p \in Procs :
             /\ pc[p] \in {"rsu_find", "rsd_find"} /\ pc'[p] # pc[p]
             /\ findProductById(req[p].id) # None
             /\ ~MayChange(p, findProductById(req[p].id))
             => /\ pc'[p] = "idle" /\ res'[p].status = 403
                /\ products' = products]_vars

\* a PATCH for an existing resource was answered 403
C22_Witness ==
    \E p \in Procs, i \in 1..Len(products) :
        /\ products[i] # Deleted
        /\ Answered(p, "resource-patch", 403)

====
